---- MODULE Spec2Model ----
\* A model of the command line engine of mod.ts: the option classes
\* (ValueOption, FlagOption, DoOption), processOptions, ValueCommand,
\* process, and the built-in helpFlag and helpCmd.
\*
\* A string is a sequence of one-character strings, so that startsWith,
\* indexOf, substring and dropWhile are computed as the code computes them.
EXTENDS Integers, Sequences, FiniteSets, TLC

VARIABLES
    run,        \* how many calls of process the hosting program has made
    cli,        \* the Definition handed to process
    denoArgs,   \* Deno.args, the arguments supplied by the host process
    args,       \* the local copy of the arguments that the parse consumes
    values,     \* the Map created by process: canonical key -> value
    pc,         \* where the synchronous call stack of process stands
    cmd,        \* index in cli.cmds of the command dispatched, 0 if none
    errors,     \* the messages written by console.log(`Error: ...`)
    exitCalls,  \* the statuses Deno.exit was called with, in order
    writes,     \* the render(..., Deno.stdout) calls started, in order
    awaiting,   \* the writes a helpFlag callback is suspended on (await)
    actionCalls,\* the invocations of a ValueCommand's action
    last        \* the last handler step of the call stack, with the state it saw

vars == <<run, cli, denoArgs, args, values, pc, cmd, errors, exitCalls, writes,
          awaiting, actionCalls, last>>

-----------------------------------------------------------------------------
\* Bounds

\* The longest argument list the host process supplies.
MaxArgs == 3

-----------------------------------------------------------------------------
\* Strings

dash == "-"
equal == "="

tH        == <<"-", "h">>
tHelp     == <<"-", "-", "h", "e", "l", "p">>
tDashDash == <<"-", "-">>
tX        == <<"-", "x">>
tXX       == <<"-", "x", "x">>
tXlong    == <<"-", "-", "x">>
tXeqY     == <<"-", "x", "=", "y">>
tV        == <<"-", "v">>
tFoo      == <<"-", "-", "f", "o", "o">>
tF        == <<"-", "f">>
tFooBar   == <<"-", "-", "f", "o", "o", "=", "b", "a", "r">>
tFooEmpty == <<"-", "-", "f", "o", "o", "=">>
tFeqAB    == <<"-", "f", "=", "a", "=", "b">>
tKV       == <<"-", "-", "k", "=", "v">>
tKVeqA    == <<"-", "-", "k", "=", "v", "=", "a">>
sRun      == <<"r", "u", "n">>
sRu       == <<"r", "u">>
sHelp     == <<"h", "e", "l", "p">>
sA        == <<"a">>
sFile     == <<"F", "i", "l", "e">>
sCmdName  == <<"C", "m", "d", "N", "a", "m", "e">>

\* The tokens the host process may supply.
Tokens == {tH, tHelp, tDashDash, tX, tXX, tXlong, tXeqY, tV, tFooBar, tFooEmpty,
           tFeqAB, tKVeqA, sRun, sRu, sHelp, sA}

\* String.prototype.startsWith
startsWith(s, p) == Len(p) <= Len(s) /\ SubSeq(s, 1, Len(p)) = p

\* String.prototype.indexOf for a one-character needle, 1-based; 0 when absent
\* (the code's -1 on its 0-based positions).
indexOf(s, c) ==
    LET hits == {i \in 1..Len(s) : s[i] = c}
    IN IF hits = {} THEN 0 ELSE CHOOSE i \in hits : \A j \in hits : i <= j

\* s.substring(from) with `from` the 0-based position, i.e. all from 1-based from+1
substringFrom(s, from) == SubSeq(s, from + 1, Len(s))

\* dropWhile(s, (c) => c == "-")
RECURSIVE dropIndex(_, _)
dropIndex(s, index) ==
    IF index < Len(s) /\ s[index + 1] = dash THEN dropIndex(s, index + 1) ELSE index

dropWhile_OneDash(s) ==
    IF Len(s) > 0 /\ s[1] = dash THEN substringFrom(s, 1) ELSE s

dropWhile(s) ==
    LET index == dropIndex(s, 0) IN
    IF index = 0 THEN s ELSE substringFrom(s, index)

-----------------------------------------------------------------------------
\* Values held by the store and handed to actions

BoolTrue   == [type |-> "boolean", str |-> <<>>]
Str(s)     == [type |-> "string", str |-> s]
Undefined  == [type |-> "undefined", str |-> <<>>]

\* Map.prototype.set
MapSet_KeepFirst(m, k, v) == m @@ (k :> v)

MapSet(m, k, v) == (k :> v) @@ m

EmptyMap == <<>>

-----------------------------------------------------------------------------
\* Declarations

ValueOption(tags) == [kind |-> "Value", tags |-> tags]
FlagOption(tags)  == [kind |-> "Flag", tags |-> tags]
DoOption(tags)    == [kind |-> "Do", tags |-> tags]

helpFlag == DoOption(<<tH, tHelp>>)

ValueCommand(name, options, showValue, action) ==
    [name |-> name, options |-> options, showValue |-> showValue, action |-> action]

helpCmd ==
    ValueCommand(sHelp, <<>>, [name |-> sCmdName, optional |-> TRUE], "helpCmd")

\* A CLI with the built-in help flag and help command wired in; the help flag
\* instance is shared by the global options and by a command.
Cli1 ==
    [options |-> <<helpFlag, FlagOption(<<tX>>), ValueOption(<<tFoo, tF>>)>>,
     cmds |-> <<helpCmd,
                ValueCommand(sRun, <<FlagOption(<<tV>>), helpFlag>>,
                             [name |-> sFile, optional |-> FALSE], "user")>>]

\* A CLI without the built-ins: options whose predicates overlap, a Value tag
\* that holds an "=", options of two lists whose first tags differ in their
\* leading "-" only, and two commands of the same name.
Cli2 ==
    [options |-> <<FlagOption(<<tV, tX>>), FlagOption(<<tX>>),
                   ValueOption(<<tX>>), ValueOption(<<tKV>>)>>,
     cmds |-> <<ValueCommand(sRu, <<>>,
                             [name |-> sFile, optional |-> FALSE], "user"),
                ValueCommand(sRun, <<ValueOption(<<tFoo, tF>>), FlagOption(<<tXlong>>)>>,
                             [name |-> sFile, optional |-> TRUE], "user"),
                ValueCommand(sRun, <<>>,
                             [name |-> sFile, optional |-> FALSE], "user")>>]

Definitions == {Cli1, Cli2}

RECURSIVE SeqsUpTo(_, _)
SeqsUpTo(S, n) ==
    IF n = 0 THEN {<<>>}
    ELSE LET shorter == SeqsUpTo(S, n - 1)
         IN shorter \cup {Append(s, t) : s \in {q \in shorter : Len(q) = n - 1}, t \in S}

ArgLists == SeqsUpTo(Tokens, MaxArgs)

-----------------------------------------------------------------------------
\* Option predicates and effects

\* ValueOption.canDo
ValueCanDo(tags, a) == \E i \in 1..Len(tags) : startsWith(a[1], Append(tags[i], equal))

\* FlagOption.canDo and DoOption.canDo
FlagCanDo_Prefix(tags, a) == \E i \in 1..Len(tags) : startsWith(a[1], tags[i])

FlagCanDo(tags, a) == \E i \in 1..Len(tags) : tags[i] = a[1]

canDo(o, a) ==
    IF o.kind = "Value" THEN ValueCanDo(o.tags, a) ELSE FlagCanDo(o.tags, a)

\* The key both ValueOption.doNow and FlagOption.doNow write
CanonicalKey_LastTag(tags) == dropWhile(tags[Len(tags)])

CanonicalKey(tags) == dropWhile(tags[1])

\* The value ValueOption.doNow stores for the token
ValueOf(token) == substringFrom(token, indexOf(token, equal))

\* options.find((o) => o.canDo(args)), as an index; 0 for undefined
FindOption_Last(options, a) ==
    LET m == {i \in 1..Len(options) : canDo(options[i], a)}
    IN IF m = {} THEN 0 ELSE CHOOSE i \in m : \A j \in m : i >= j

FindOption(options, a) ==
    LET m == {i \in 1..Len(options) : canDo(options[i], a)}
    IN IF m = {} THEN 0 ELSE CHOOSE i \in m : \A j \in m : i <= j

\* ValueCommand.canDo
CommandCanDo(c, a) == Len(a) > 0 /\ a[1] = c.name

\* cli.cmds.find((c) => c.canDo(args)), as an index; 0 for undefined
FindCommand_Last(cmds, a) ==
    LET m == {i \in 1..Len(cmds) : CommandCanDo(cmds[i], a)}
    IN IF m = {} THEN 0 ELSE CHOOSE i \in m : \A j \in m : i >= j

FindCommand(cmds, a) ==
    LET m == {i \in 1..Len(cmds) : CommandCanDo(cmds[i], a)}
    IN IF m = {} THEN 0 ELSE CHOOSE i \in m : \A j \in m : i <= j

\* cli.cmds.find((c) => c.name == value) of helpCmd
FindByName(cmds, value) ==
    LET m == {i \in 1..Len(cmds) : cmds[i].name = value}
    IN IF m = {} THEN 0 ELSE CHOOSE i \in m : \A j \in m : i <= j

-----------------------------------------------------------------------------
\* Messages

Msg(text, detail) == [text |-> text, detail |-> detail]

NoCommandSpecified   == Msg("Invalid arguments - no command specified", <<>>)
InvalidCommand(t)    == Msg("Invalid command", <<t>>)
InvalidOption(t)     == Msg("Invalid option", <<t>>)
RequiresValue(n)     == Msg("requires a value", <<n>>)
TooManyArguments(a)  == Msg("Too many arguments", a)
UnknownCommand(v)    == Msg("Unknown command", <<v>>)

-----------------------------------------------------------------------------
\* The state after construction: a Definition and the host's arguments

NoStep == [op |-> "none", list |-> "none", opt |-> 0, args |-> <<>>, values |-> EmptyMap]

Step(op, list, opt) ==
    [op |-> op, list |-> list, opt |-> opt, args |-> args, values |-> values]

Init ==
    /\ run = 0
    /\ cli \in Definitions
    /\ denoArgs \in ArgLists
    /\ args = <<>>
    /\ values = EmptyMap
    /\ pc = "process"
    /\ cmd = 0
    /\ errors = <<>>
    /\ exitCalls = <<>>
    /\ writes = <<>>
    /\ awaiting = {}
    /\ actionCalls = <<>>
    /\ last = NoStep

-----------------------------------------------------------------------------
\* process, up to its call of processOptions on the global options

Process_NoCopy ==
    /\ pc = "process"
    /\ run' = run + 1
    /\ values' = EmptyMap
    /\ args' = IF run = 0 THEN denoArgs ELSE args
    /\ pc' = "globalOptions"
    /\ last' = Step("process", "none", 0)
    /\ UNCHANGED <<cli, denoArgs, cmd, errors, exitCalls, writes, awaiting, actionCalls>>

Process ==
    /\ pc = "process"
    /\ run' = run + 1
    /\ values' = EmptyMap
    /\ args' = denoArgs
    /\ pc' = "globalOptions"
    /\ last' = Step("process", "none", 0)
    /\ UNCHANGED <<cli, denoArgs, cmd, errors, exitCalls, writes, awaiting, actionCalls>>

-----------------------------------------------------------------------------
\* reportErrorAndTerminate: console.log, then Deno.exit(-1), which never returns

reportErrorAndTerminate_ExitZero(errorMsg) ==
    /\ errors' = Append(errors, errorMsg)
    /\ exitCalls' = Append(exitCalls, 0)
    /\ pc' = "exited"

reportErrorAndTerminate(errorMsg) ==
    /\ errors' = Append(errors, errorMsg)
    /\ exitCalls' = Append(exitCalls, -1)
    /\ pc' = "exited"

-----------------------------------------------------------------------------
\* processOptions, one iteration of its loop per action

InScan == pc \in {"globalOptions", "cmdOptions"}

\* the list being scanned: cli.options from process, this.options from doNow
ScanOptions_Global == cli.options

ScanOptions == IF pc = "globalOptions" THEN cli.options ELSE cli.cmds[cmd].options

ScanList == IF pc = "globalOptions" THEN "global" ELSE "cmd"

\* where the caller goes on when processOptions returns
AfterScan == IF pc = "globalOptions" THEN "dispatch" ELSE "cmdValue"

\* args.length > 0 && args[0].startsWith("-")
LoopCondition(a) == Len(a) > 0 /\ startsWith(a[1], <<dash>>)

\* args[0] == "--"
IsTerminator(token) == token = tDashDash

\* the loop condition is false: processOptions returns
ScanReturn ==
    /\ InScan
    /\ ~LoopCondition(args)
    /\ pc' = AfterScan
    /\ last' = Step("processOptions.return", ScanList, 0)
    /\ UNCHANGED <<run, cli, denoArgs, args, values, cmd, errors, exitCalls, writes,
                   awaiting, actionCalls>>

\* the terminator: splice it off and break
ScanTerminator_Continue ==
    /\ InScan
    /\ LoopCondition(args)
    /\ IsTerminator(args[1])
    /\ args' = Tail(args)
    /\ last' = Step("processOptions.terminator", ScanList, 0)
    /\ UNCHANGED <<run, cli, denoArgs, values, pc, cmd, errors, exitCalls, writes,
                   awaiting, actionCalls>>

ScanTerminator ==
    /\ InScan
    /\ LoopCondition(args)
    /\ IsTerminator(args[1])
    /\ args' = Tail(args)
    /\ pc' = AfterScan
    /\ last' = Step("processOptions.terminator", ScanList, 0)
    /\ UNCHANGED <<run, cli, denoArgs, values, cmd, errors, exitCalls, writes,
                   awaiting, actionCalls>>

\* no option of the list can do the head token
ScanInvalidOption ==
    /\ InScan
    /\ LoopCondition(args)
    /\ ~IsTerminator(args[1])
    /\ FindOption(ScanOptions, args) = 0
    /\ reportErrorAndTerminate(InvalidOption(args[1]))
    /\ last' = Step("processOptions.invalid", ScanList, 0)
    /\ UNCHANGED <<run, cli, denoArgs, args, values, cmd, writes, awaiting, actionCalls>>

\* the option found, when there is one
Found(kind) ==
    /\ InScan
    /\ LoopCondition(args)
    /\ ~IsTerminator(args[1])
    /\ FindOption(ScanOptions, args) # 0
    /\ ScanOptions[FindOption(ScanOptions, args)].kind = kind

\* ValueOption.doNow
ValueOptionDoNow ==
    /\ Found("Value")
    /\ LET o == ScanOptions[FindOption(ScanOptions, args)]
       IN values' = MapSet(values, CanonicalKey(o.tags), Str(ValueOf(args[1])))
    /\ args' = Tail(args)
    /\ last' = Step("ValueOption.doNow", ScanList, FindOption(ScanOptions, args))
    /\ UNCHANGED <<run, cli, denoArgs, pc, cmd, errors, exitCalls, writes, awaiting,
                   actionCalls>>

\* FlagOption.doNow
FlagOptionDoNow_Break ==
    /\ Found("Flag")
    /\ args' = Tail(args)
    /\ LET o == ScanOptions[FindOption(ScanOptions, args)]
       IN values' = MapSet(values, CanonicalKey(o.tags), BoolTrue)
    /\ pc' = AfterScan
    /\ last' = Step("FlagOption.doNow", ScanList, FindOption(ScanOptions, args))
    /\ UNCHANGED <<run, cli, denoArgs, cmd, errors, exitCalls, writes, awaiting,
                   actionCalls>>

FlagOptionDoNow_Pop ==
    /\ Found("Flag")
    /\ args' = SubSeq(args, 1, Len(args) - 1)
    /\ LET o == ScanOptions[FindOption(ScanOptions, args)]
       IN values' = MapSet(values, CanonicalKey(o.tags), BoolTrue)
    /\ last' = Step("FlagOption.doNow", ScanList, FindOption(ScanOptions, args))
    /\ UNCHANGED <<run, cli, denoArgs, pc, cmd, errors, exitCalls, writes, awaiting,
                   actionCalls>>

FlagOptionDoNow ==
    /\ Found("Flag")
    /\ args' = Tail(args)
    /\ LET o == ScanOptions[FindOption(ScanOptions, args)]
       IN values' = MapSet(values, CanonicalKey(o.tags), BoolTrue)
    /\ last' = Step("FlagOption.doNow", ScanList, FindOption(ScanOptions, args))
    /\ UNCHANGED <<run, cli, denoArgs, pc, cmd, errors, exitCalls, writes, awaiting,
                   actionCalls>>

\* show(cli) and render(cmd.show(), Deno.stdout): the write is started and a
\* promise returned; what it writes is 0 for the top-level document or the
\* index of the command whose usage block it is
StartWrite(doc) == writes' = Append(writes, [doc |-> doc, done |-> FALSE])

\* DoOption.doNow with the helpFlag callback: the token is spliced off, the
\* callback runs up to its await and doNow returns without waiting for it
DoOptionDoNow_NoSplice ==
    /\ Found("Do")
    /\ StartWrite(0)
    /\ awaiting' = awaiting \cup {Len(writes) + 1}
    /\ last' = Step("DoOption.doNow", ScanList, FindOption(ScanOptions, args))
    /\ UNCHANGED <<run, cli, denoArgs, args, values, pc, cmd, errors, exitCalls,
                   actionCalls>>

DoOptionDoNow ==
    /\ Found("Do")
    /\ args' = Tail(args)
    /\ StartWrite(0)
    /\ awaiting' = awaiting \cup {Len(writes) + 1}
    /\ last' = Step("DoOption.doNow", ScanList, FindOption(ScanOptions, args))
    /\ UNCHANGED <<run, cli, denoArgs, values, pc, cmd, errors, exitCalls, actionCalls>>

-----------------------------------------------------------------------------
\* process, after processOptions returned

NoCommand_AsInvalidCommand ==
    /\ pc = "dispatch"
    /\ Len(args) = 0
    /\ reportErrorAndTerminate(Msg("Invalid command", <<>>))
    /\ last' = Step("process.noCommand", "none", 0)
    /\ UNCHANGED <<run, cli, denoArgs, args, values, cmd, writes, awaiting, actionCalls>>

NoCommand ==
    /\ pc = "dispatch"
    /\ Len(args) = 0
    /\ reportErrorAndTerminate(NoCommandSpecified)
    /\ last' = Step("process.noCommand", "none", 0)
    /\ UNCHANGED <<run, cli, denoArgs, args, values, cmd, writes, awaiting, actionCalls>>

InvalidCommandName ==
    /\ pc = "dispatch"
    /\ Len(args) # 0
    /\ FindCommand(cli.cmds, args) = 0
    /\ reportErrorAndTerminate(InvalidCommand(args[1]))
    /\ last' = Step("process.invalidCommand", "none", 0)
    /\ UNCHANGED <<run, cli, denoArgs, args, values, cmd, writes, awaiting, actionCalls>>

\* args.splice(0, 1); cmd.doNow(cli, args, values), up to its processOptions
SelectCommand ==
    /\ pc = "dispatch"
    /\ Len(args) # 0
    /\ FindCommand(cli.cmds, args) # 0
    /\ cmd' = FindCommand(cli.cmds, args)
    /\ args' = Tail(args)
    /\ pc' = "cmdOptions"
    /\ last' = Step("process.select", "none", 0)
    /\ UNCHANGED <<run, cli, denoArgs, values, errors, exitCalls, writes, awaiting,
                   actionCalls>>

-----------------------------------------------------------------------------
\* ValueCommand.doNow, after processOptions returned

\* which branch the remaining arguments select
Positional_NoLimit(n, optional) ==
    IF n = 0 THEN (IF optional THEN "absent" ELSE "requires") ELSE "value"

Positional_AlwaysOptional(n, optional) ==
    IF n = 0 THEN "absent" ELSE IF n = 1 THEN "value" ELSE "tooMany"

Positional(n, optional) ==
    IF n = 0 THEN (IF optional THEN "absent" ELSE "requires")
    ELSE IF n = 1 THEN "value"
    ELSE "tooMany"

Branch == Positional(Len(args), cli.cmds[cmd].showValue.optional)

\* the value the action is called with
ActionValue == IF Branch = "absent" THEN Undefined ELSE Str(args[1])

CallAction ==
    actionCalls' = Append(actionCalls, [cmd |-> cmd, value |-> ActionValue,
                                        values |-> values])

CommandRequiresValue ==
    /\ pc = "cmdValue"
    /\ Branch = "requires"
    /\ reportErrorAndTerminate(RequiresValue(cli.cmds[cmd].showValue.name))
    /\ last' = Step("ValueCommand.requires", "none", 0)
    /\ UNCHANGED <<run, cli, denoArgs, args, values, cmd, writes, awaiting, actionCalls>>

CommandTooMany ==
    /\ pc = "cmdValue"
    /\ Branch = "tooMany"
    /\ reportErrorAndTerminate(TooManyArguments(args))
    /\ last' = Step("ValueCommand.tooMany", "none", 0)
    /\ UNCHANGED <<run, cli, denoArgs, args, values, cmd, writes, awaiting, actionCalls>>

\* the action of a command of the hosting program: it is called and returns,
\* and with it doNow and process
CommandAction ==
    /\ pc = "cmdValue"
    /\ Branch \in {"absent", "value"}
    /\ cli.cmds[cmd].action = "user"
    /\ CallAction
    /\ pc' = "returned"
    /\ last' = Step("ValueCommand.action", "none", 0)
    /\ UNCHANGED <<run, cli, denoArgs, args, values, cmd, errors, exitCalls, writes,
                   awaiting>>

\* the action of helpCmd with no value: show(cli), not awaited
HelpCmdShowCli ==
    /\ pc = "cmdValue"
    /\ Branch = "absent"
    /\ cli.cmds[cmd].action = "helpCmd"
    /\ CallAction
    /\ StartWrite(0)
    /\ pc' = "returned"
    /\ last' = Step("helpCmd.show", "none", 0)
    /\ UNCHANGED <<run, cli, denoArgs, args, values, cmd, errors, exitCalls, awaiting>>

\* the action of helpCmd with the name of a command: render(cmd.show(), ...)
HelpCmdShowCommand_TopLevel ==
    /\ pc = "cmdValue"
    /\ Branch = "value"
    /\ cli.cmds[cmd].action = "helpCmd"
    /\ FindByName(cli.cmds, args[1]) # 0
    /\ CallAction
    /\ StartWrite(0)
    /\ pc' = "returned"
    /\ last' = Step("helpCmd.showCommand", "none", 0)
    /\ UNCHANGED <<run, cli, denoArgs, args, values, cmd, errors, exitCalls, awaiting>>

HelpCmdShowCommand ==
    /\ pc = "cmdValue"
    /\ Branch = "value"
    /\ cli.cmds[cmd].action = "helpCmd"
    /\ FindByName(cli.cmds, args[1]) # 0
    /\ CallAction
    /\ StartWrite(FindByName(cli.cmds, args[1]))
    /\ pc' = "returned"
    /\ last' = Step("helpCmd.showCommand", "none", 0)
    /\ UNCHANGED <<run, cli, denoArgs, args, values, cmd, errors, exitCalls, awaiting>>

\* the action of helpCmd with a value that names no command
HelpCmdUnknown ==
    /\ pc = "cmdValue"
    /\ Branch = "value"
    /\ cli.cmds[cmd].action = "helpCmd"
    /\ FindByName(cli.cmds, args[1]) = 0
    /\ CallAction
    /\ reportErrorAndTerminate(UnknownCommand(args[1]))
    /\ last' = Step("helpCmd.unknown", "none", 0)
    /\ UNCHANGED <<run, cli, denoArgs, args, values, cmd, writes, awaiting>>

-----------------------------------------------------------------------------
\* The event loop

\* a write started by render reaches standard output; the host decides when
WriteComplete ==
    /\ pc # "exited"
    /\ \E i \in 1..Len(writes) :
          /\ ~writes[i].done
          /\ writes' = [writes EXCEPT ![i].done = TRUE]
    /\ UNCHANGED <<run, cli, denoArgs, args, values, pc, cmd, errors, exitCalls,
                   awaiting, actionCalls, last>>

\* the helpFlag callback resumes after `await show(cli)`: Deno.exit(0). A
\* continuation runs only once the call stack of process has emptied.
HelpFlagResume ==
    /\ pc = "returned"
    /\ \E i \in awaiting :
          /\ writes[i].done
          /\ awaiting' = awaiting \ {i}
    /\ exitCalls' = Append(exitCalls, 0)
    /\ pc' = "exited"
    /\ last' = Step("helpFlag.resume", "none", 0)
    /\ UNCHANGED <<run, cli, denoArgs, args, values, cmd, errors, writes, actionCalls>>

-----------------------------------------------------------------------------

Next ==
    \/ Process
    \/ ScanReturn
    \/ ScanTerminator
    \/ ScanInvalidOption
    \/ ValueOptionDoNow
    \/ FlagOptionDoNow
    \/ DoOptionDoNow
    \/ NoCommand
    \/ InvalidCommandName
    \/ SelectCommand
    \/ CommandRequiresValue
    \/ CommandTooMany
    \/ CommandAction
    \/ HelpCmdShowCli
    \/ HelpCmdShowCommand
    \/ HelpCmdUnknown
    \/ WriteComplete
    \/ HelpFlagResume

Spec == Init /\ [][Next]_vars

\* The call stack of process runs to completion and the event loop keeps
\* turning: no enabled step is put off for ever.
FairSpec == Spec /\ WF_vars(Next)

-----------------------------------------------------------------------------
\* The hosting program calls process a second time, once the first call has
\* returned: the Definition and Deno.args are what the first call left of them.

MaxRuns == 2

ProcessAgain ==
    /\ pc = "returned"
    /\ run < MaxRuns
    /\ pc' = "process"
    /\ cmd' = 0
    /\ last' = NoStep
    /\ UNCHANGED <<run, cli, denoArgs, args, values, errors, exitCalls, writes,
                   awaiting, actionCalls>>

NextTwice ==
    \/ Next
    \/ ProcessAgain

SpecTwice == Init /\ [][NextTwice]_vars

-----------------------------------------------------------------------------
\* Vocabulary of the properties

\* a step of the call stack of process, as opposed to a write completing
CallStackStep ==
    <<args, values, pc, cmd, errors, exitCalls, awaiting, actionCalls, last>>'
        # <<args, values, pc, cmd, errors, exitCalls, awaiting, actionCalls, last>>

\* the step reports msg and exits with a non-zero status
Failed(msg) ==
    /\ errors' = Append(errors, msg)
    /\ Len(exitCalls') = Len(exitCalls) + 1
    /\ SubSeq(exitCalls', 1, Len(exitCalls)) = exitCalls
    /\ exitCalls'[Len(exitCalls')] # 0
    /\ pc' = "exited"

\* s with all its leading "-" removed
Stripped(s) ==
    LET k == CHOOSE n \in 0..Len(s) :
                 /\ \A i \in 1..n : s[i] = "-"
                 /\ n = Len(s) \/ s[n + 1] # "-"
    IN SubSeq(s, k + 1, Len(s))

\* the options declared for the list a scan is in
DeclaredList == IF pc = "globalOptions" THEN cli.options ELSE cli.cmds[cmd].options

\* the option the last step applied
LastOption ==
    IF last.list = "global" THEN cli.options[last.opt]
    ELSE cli.cmds[cmd].options[last.opt]

HasTag(o, t) == \E i \in 1..Len(o.tags) : o.tags[i] = t

HasValueTag(o, t) == \E i \in 1..Len(o.tags) : startsWith(t, o.tags[i] \o <<"=">>)

\* the predicate of each variant, as the specification words it
Matches(o, t) == IF o.kind = "Value" THEN HasValueTag(o, t) ELSE HasTag(o, t)

HelpFlagRegistered == \E i \in 1..Len(cli.options) : cli.options[i] = helpFlag

AllWritten == \A i \in 1..Len(writes) : writes[i].done

ErrorTexts ==
    {"Invalid arguments - no command specified", "Invalid command", "Invalid option",
     "requires a value", "Too many arguments", "Unknown command"}

-----------------------------------------------------------------------------
\* C1: with the arguments exactly ["--help"] or ["-h"] and the help flag among
\* the global options, the run ends with the top-level help written, exit
\* status 0 and no Error line.
C1_HelpExitsWithStatusZero ==
    (denoArgs \in {<<tHelp>>, <<tH>>} /\ HelpFlagRegistered /\ pc = "exited")
        => /\ exitCalls = <<0>>
           /\ errors = <<>>
           /\ writes = <<[doc |-> 0, done |-> TRUE]>>

\* C2: no exit call is made while a write that an action started is still
\* pending.
C2_WritesCompleteBeforeExit == exitCalls # <<>> => AllWritten

\* C3: the step that detects an error writes the one and only Error line, with
\* one of the six messages, and exits with a non-zero status; once an error is
\* reported no token is consumed, the store is not written, no action is
\* invoked and no other error is reported.
C3_SingleErrorThenExit ==
    [][ /\ errors' # errors =>
            /\ errors = <<>>
            /\ Len(errors') = 1
            /\ errors'[1].text \in ErrorTexts
            /\ Failed(errors'[1])
            /\ Len(exitCalls') = 1
            /\ args' = args
            /\ values' = values
        /\ errors # <<>> =>
            UNCHANGED <<args, values, cmd, actionCalls, errors, exitCalls, pc>>
      ]_vars

C3_Witness ==
    /\ pc = "exited"
    /\ errors = <<UnknownCommand(sA)>>
    /\ exitCalls = <<-1>>

\* C4: when the scan of the global options has returned and left no token, the
\* next step of process reports `Invalid arguments - no command specified` and
\* exits with a non-zero status, and no command is selected or run.
C4_NoCommandSpecified ==
    [][ (pc = "dispatch" /\ args = <<>> /\ CallStackStep) =>
            /\ Failed(NoCommandSpecified)
            /\ cmd' = 0
            /\ actionCalls' = <<>>
            /\ args' = args
            /\ values' = values
      ]_vars

C4_Witness ==
    /\ denoArgs = <<tX, tDashDash>>
    /\ errors = <<NoCommandSpecified>>
    /\ exitCalls = <<-1>>
    /\ cmd = 0

\* C5: in a scan of the global options or of a command's options, a head token
\* that starts with "-", is not "--" and is matched by no option of the list
\* being scanned is reported as `Invalid option <token>` with a non-zero exit,
\* also when an option of the other list would match it.
C5_InvalidOption ==
    [][ ( /\ pc \in {"globalOptions", "cmdOptions"}
          /\ args # <<>>
          /\ startsWith(args[1], <<"-">>)
          /\ args[1] # <<"-", "-">>
          /\ \A i \in 1..Len(DeclaredList) : ~Matches(DeclaredList[i], args[1])
          /\ CallStackStep ) =>
            /\ Failed(InvalidOption(args[1]))
            /\ args' = args
            /\ values' = values
            /\ actionCalls' = actionCalls
      ]_vars

\* `run -x`: -x is a global option, not one of run
C5_Witness ==
    /\ cli = Cli1
    /\ cmd = 2
    /\ denoArgs = <<sRun, tX>>
    /\ errors = <<InvalidOption(tX)>>
    /\ exitCalls = <<-1>>

\* C6: with tokens left after the global scan, process selects the first command
\* in declaration order whose name equals the head token, removes that token and
\* enters the command's doNow; when no name equals it, it reports
\* `Invalid command <token>`, exits with a non-zero status and runs no command.
C6_Dispatch ==
    [][ (pc = "dispatch" /\ args # <<>> /\ CallStackStep) =>
            LET named == {i \in 1..Len(cli.cmds) : cli.cmds[i].name = args[1]}
            IN IF named # {}
               THEN /\ cmd' \in named
                    /\ \A i \in named : cmd' <= i
                    /\ args' = Tail(args)
                    /\ pc' = "cmdOptions"
                    /\ errors' = errors
                    /\ exitCalls' = exitCalls
               ELSE /\ Failed(InvalidCommand(args[1]))
                    /\ cmd' = 0
                    /\ args' = args
                    /\ actionCalls' = <<>>
      ]_vars

\* `run` with the commands ru, run, run declared: the second is selected
C6_Witness ==
    /\ cli = Cli2
    /\ denoArgs = <<tX, sRun, sA>>
    /\ pc = "cmdOptions"
    /\ cmd = 2
    /\ args = <<sA>>

\* C7: a ValueCommand whose value is required, reached with no token left after
\* its option scan, reports `<ShowValue.name> requires a value`; with two or
\* more tokens left any ValueCommand reports `Too many arguments` and the tokens
\* left; both exit with a non-zero status and the action is not invoked.
C7_PositionalErrors ==
    [][ (pc = "cmdValue" /\ CallStackStep) =>
            /\ (Len(args) = 0 /\ ~cli.cmds[cmd].showValue.optional) =>
                    /\ Failed(RequiresValue(cli.cmds[cmd].showValue.name))
                    /\ actionCalls' = <<>>
            /\ Len(args) >= 2 =>
                    /\ Failed(TooManyArguments(args))
                    /\ actionCalls' = <<>>
      ]_vars

C7_Witness ==
    /\ errors = <<TooManyArguments(<<sA, sRun>>)>>
    /\ exitCalls = <<-1>>
    /\ actionCalls = <<>>
    /\ ~cli.cmds[cmd].showValue.optional

\* C8: the action of the dispatched ValueCommand is invoked once, with the
\* store, when one token is left after the option scan (that token is its
\* value) or none is left and the value is optional (its value is absent); it
\* is invoked in no other case and at no other step.
C8_ActionInvokedOnce ==
    [][ /\ (pc = "cmdValue" /\ CallStackStep) =>
            IF Len(args) = 1
            THEN actionCalls' = <<[cmd |-> cmd, value |-> Str(args[1]), values |-> values]>>
            ELSE IF Len(args) = 0 /\ cli.cmds[cmd].showValue.optional
            THEN actionCalls' = <<[cmd |-> cmd, value |-> Undefined, values |-> values]>>
            ELSE actionCalls' = <<>>
        /\ pc # "cmdValue" => actionCalls' = actionCalls
      ]_vars

C8_Witness ==
    /\ cli = Cli2
    /\ actionCalls = <<[cmd |-> 2, value |-> Undefined,
                        values |-> (<<"v">> :> BoolTrue)]>>
    /\ pc = "returned"

\* what C9 says of the step that applied a Value option, for the tags in scope
ValueStored(inScope(_)) ==
    last.op = "ValueOption.doNow" =>
        LET o == LastOption
            token == last.args[1]
            key == Stripped(o.tags[1])
        IN \A i \in 1..Len(o.tags) :
              (inScope(o.tags[i]) /\ startsWith(token, o.tags[i] \o <<"=">>)) =>
                  /\ args = Tail(last.args)
                  /\ DOMAIN values = DOMAIN last.values \cup {key}
                  /\ values[key] = Str(SubSeq(token, Len(o.tags[i]) + 2, Len(token)))
                  /\ \A k \in DOMAIN last.values \ {key} : values[k] = last.values[k]

AnyTag(tag) == TRUE

NoEqualIn(tag) == \A i \in 1..Len(tag) : tag[i] # "="

\* C9 as stated: applying a Value option to a head token <tag>=<v>, for any of
\* its tags, removes that token and stores <v> under the first tag stripped of
\* its leading "-".
C9_AnyTag == ValueStored(AnyTag)

\* C9: applying a Value option to a head token <tag>=<v>, for any of its tags
\* that holds no "=", removes that token and stores <v> (possibly empty) under
\* the first tag stripped of its leading "-".
C9_TagWithoutEqual == ValueStored(NoEqualIn)

\* `-f=a=b`: the second spelling, stored under the key of the first
C9_Witness ==
    /\ last.op = "ValueOption.doNow"
    /\ last.args[1] = tFeqAB
    /\ values[<<"f", "o", "o">>] = Str(<<"a", "=", "b">>)

OptionToken ==
    /\ pc \in {"globalOptions", "cmdOptions"}
    /\ args # <<>>
    /\ startsWith(args[1], <<"-">>)
    /\ args[1] # <<"-", "-">>

\* what applying option o to token t does to the store and to the writes
AppliedAlone(o, t) ==
    /\ args' = Tail(args)
    /\ o.kind = "Value" =>
          /\ last'.op = "ValueOption.doNow"
          /\ values' = MapSet(values, Stripped(o.tags[1]),
                              Str(SubSeq(t, indexOf(t, "=") + 1, Len(t))))
          /\ writes' = writes
    /\ o.kind = "Flag" =>
          /\ last'.op = "FlagOption.doNow"
          /\ values' = MapSet(values, Stripped(o.tags[1]), BoolTrue)
          /\ writes' = writes
    /\ o.kind = "Do" =>
          /\ last'.op = "DoOption.doNow"
          /\ values' = values
          /\ Len(writes') = Len(writes) + 1

\* C11: in a scan step whose head token is matched by two or more options of
\* the list being scanned, the option applied is the one declared first, and
\* the step has the effect of that option alone.
C11_FirstDeclaredWins ==
    [][ (OptionToken /\ CallStackStep) =>
            LET L == DeclaredList
                m == {i \in 1..Len(L) : Matches(L[i], args[1])}
            IN Cardinality(m) >= 2 =>
                  \E i \in m :
                      /\ \A j \in m : i <= j
                      /\ last'.opt = i
                      /\ AppliedAlone(L[i], args[1])
      ]_vars

\* `-x` with Flag(-v, -x) declared before Flag(-x): v is set, x is not
C11_Witness ==
    /\ cli = Cli2
    /\ last.op = "FlagOption.doNow"
    /\ last.list = "global"
    /\ last.opt = 1
    /\ last.args[1] = tX
    /\ values = (<<"v">> :> BoolTrue)

\* C12: the step of a scan that takes `--` removes that token only and ends the
\* scan; the tokens after it reach the caller as they are: a command's action
\* gets the one left as its value and process takes the head as a command name,
\* also when the token starts with "-" or equals a declared tag.
C12_TerminatorEndsScan ==
    [][ /\ ( /\ pc \in {"globalOptions", "cmdOptions"}
             /\ args # <<>>
             /\ args[1] = <<"-", "-">>
             /\ CallStackStep ) =>
                /\ args' = Tail(args)
                /\ values' = values
                /\ pc' = (IF pc = "globalOptions" THEN "dispatch" ELSE "cmdValue")
                /\ UNCHANGED <<errors, exitCalls, writes, actionCalls>>
        /\ ( /\ last.op = "processOptions.terminator"
             /\ CallStackStep ) =>
                /\ values' = values
                /\ (pc = "dispatch" /\ args = <<>>) =>
                      args' = args /\ Failed(NoCommandSpecified)
                /\ (pc = "dispatch" /\ args # <<>>) =>
                      IF \E i \in 1..Len(cli.cmds) : cli.cmds[i].name = args[1]
                      THEN args' = Tail(args) /\ pc' = "cmdOptions"
                      ELSE args' = args /\ Failed(InvalidCommand(args[1]))
                /\ pc = "cmdValue" =>
                      /\ args' = args
                      /\ Len(args) = 1 =>
                            /\ Len(actionCalls') = Len(actionCalls) + 1
                            /\ actionCalls'[Len(actionCalls')].value = Str(args[1])
      ]_vars

\* `run -- -v`: -v is an option of run, and is handed to the action
C12_Witness ==
    /\ cli = Cli1
    /\ denoArgs = <<sRun, tDashDash, tV>>
    /\ actionCalls = <<[cmd |-> 2, value |-> Str(tV), values |-> EmptyMap]>>
    /\ pc = "returned"

\* C13: the action of the help command, given the name of a declared command,
\* starts the rendering of that command's usage block and calls no exit; given
\* a value that names no command it reports `Unknown command <value>` and exits
\* with a non-zero status; given no value it starts the rendering of the
\* top-level help. A run of exactly `help <name>` never calls exit.
C13_HelpCommand ==
    [][ /\ ( /\ pc = "cmdValue"
             /\ cli.cmds[cmd] = helpCmd
             /\ Len(args) <= 1
             /\ CallStackStep ) =>
                LET named == IF args = <<>> THEN {}
                             ELSE {i \in 1..Len(cli.cmds) : cli.cmds[i].name = args[1]}
                IN IF args = <<>>
                   THEN /\ writes' = Append(writes, [doc |-> 0, done |-> FALSE])
                        /\ UNCHANGED <<errors, exitCalls>>
                        /\ pc' = "returned"
                   ELSE IF named # {}
                   THEN /\ \E i \in named :
                              writes' = Append(writes, [doc |-> i, done |-> FALSE])
                        /\ UNCHANGED <<errors, exitCalls>>
                        /\ pc' = "returned"
                   ELSE /\ Failed(UnknownCommand(args[1]))
                        /\ writes' = writes
        /\ ( /\ Len(denoArgs) = 2
             /\ denoArgs[1] = sHelp
             /\ \E i \in 1..Len(cli.cmds) : cli.cmds[i].name = denoArgs[2]
             /\ cli.cmds[1] = helpCmd ) => exitCalls' = <<>>
      ]_vars

\* `help run`: the usage block of run, the second command, is written
C13_Witness ==
    /\ cli = Cli1
    /\ denoArgs = <<sHelp, sRun>>
    /\ writes = <<[doc |-> 2, done |-> TRUE]>>
    /\ pc = "returned"
    /\ exitCalls = <<>>
    /\ errors = <<>>

\* C14: when process is called again with the same Definition and Deno.args,
\* every call that has ended selected the same command and handed its action
\* the same value and the same store contents as the first, and reported no
\* error: nothing that a call consumed or stored is seen by the next.
C14_SameOutcomeEachRun ==
    (run >= 2 /\ pc \in {"returned", "exited"}) =>
        /\ errors = <<>>
        /\ Len(actionCalls) = run
        /\ \A i \in 1..Len(actionCalls) : actionCalls[i] = actionCalls[1]

\* `-x=y run --x` twice: both calls hand the action the store x = true
C14_Witness ==
    /\ cli = Cli2
    /\ run = 2
    /\ pc = "returned"
    /\ denoArgs = <<tXeqY, sRun, tXlong>>
    /\ actionCalls[2] = [cmd |-> 2, value |-> Undefined,
                         values |-> (<<"x">> :> BoolTrue)]

\* C15: when a scan has returned, no token is left, or the head token does not
\* start with "-", or the last token the scan took was `--`.
C15_ScanReturnGuarantee ==
    pc \in {"dispatch", "cmdValue"} =>
        \/ args = <<>>
        \/ ~startsWith(args[1], <<"-">>)
        \/ /\ last.op = "processOptions.terminator"
           /\ last.args[1] = <<"-", "-">>
           /\ args = Tail(last.args)

\* `run -- -v`: the scan of run returns with -v at the head
C15_Witness ==
    /\ pc = "cmdValue"
    /\ args = <<tV>>
    /\ last.op = "processOptions.terminator"
    /\ last.list = "cmd"

\* C16: every iteration of the scan loop that does not end the process removes
\* exactly the head token, whichever kind of option or terminator takes it, and
\* every run reaches a call of a command's action or an exit.
C16_ScanTerminates ==
    /\ [][ ( /\ pc \in {"globalOptions", "cmdOptions"}
             /\ args # <<>>
             /\ startsWith(args[1], <<"-">>)
             /\ CallStackStep
             /\ pc' # "exited" ) =>
                /\ args' = Tail(args)
                /\ Len(args') = Len(args) - 1
         ]_vars
    /\ <>(actionCalls # <<>> \/ exitCalls # <<>>)

\* `-h -x run`: an Action, a Flag and a command name taken one token at a time
C16_Witness ==
    /\ cli = Cli1
    /\ denoArgs = <<tH, tX, sRun>>
    /\ last.op = "FlagOption.doNow"
    /\ args = <<sRun>>
    /\ Len(writes) = 1

IsSuffix(a, b) == Len(a) <= Len(b) /\ a = SubSeq(b, Len(b) - Len(a) + 1, Len(b))

\* C17: Deno.args is never modified, the tokens left are always a suffix of it,
\* and a step of the parse leaves them as they are or removes the head token.
C17_TokensAreSuffix ==
    [][ /\ denoArgs' = denoArgs
        /\ IsSuffix(args', denoArgs)
        /\ pc = "process" => args' = denoArgs
        /\ pc # "process" => args' = args \/ (args # <<>> /\ args' = Tail(args))
      ]_vars

C17_Witness ==
    /\ cli = Cli1
    /\ denoArgs = <<tX, sRun, sA>>
    /\ args = <<sA>>
    /\ pc = "returned"

\* C18: within a run no key leaves the store; the store changes only when a
\* Value or Flag option takes a token, and that step sets the canonical key to
\* the value of that token whatever the key held before, leaving the other keys
\* as they were; the action is handed the store as the last such step left it.
C18_LastWriteWins ==
    [][ pc # "process" =>
            /\ DOMAIN values \subseteq DOMAIN values'
            /\ IF CallStackStep /\ last'.op \in {"ValueOption.doNow", "FlagOption.doNow"}
               THEN LET o == DeclaredList[last'.opt]
                        key == Stripped(o.tags[1])
                        t == args[1]
                    IN /\ DOMAIN values' = DOMAIN values \cup {key}
                       /\ values'[key] =
                             (IF o.kind = "Value"
                              THEN Str(SubSeq(t, indexOf(t, "=") + 1, Len(t)))
                              ELSE BoolTrue)
                       /\ \A k \in DOMAIN values \ {key} : values'[k] = values[k]
               ELSE values' = values
            /\ Len(actionCalls') > Len(actionCalls) =>
                  actionCalls'[Len(actionCalls')].values = values
      ]_vars

\* `-x=y run --x`: the key x is written by a Value option and then by a Flag
C18_Witness ==
    /\ cli = Cli2
    /\ last.op = "FlagOption.doNow"
    /\ last.list = "cmd"
    /\ last.values = (<<"x">> :> Str(<<"y">>))
    /\ values = (<<"x">> :> BoolTrue)

\* C19: once the help flag has been applied the run ends with the top-level help
\* and exit status 0: no token is consumed after it, no command is selected, no
\* action is invoked and no Error line is reported.
C19_HelpFlagEndsRun ==
    awaiting # {} =>
        /\ errors = <<>>
        /\ actionCalls = <<>>
        /\ pc # "returned"
        /\ pc = "exited" => exitCalls = <<0>>

\* the Value and Flag options declared for the run: the global ones and those
\* of the command dispatched
DeclaredFor(kind) ==
    {cli.options[i] : i \in {j \in 1..Len(cli.options) : cli.options[j].kind = kind}}
    \cup (IF cmd = 0 THEN {}
          ELSE {cli.cmds[cmd].options[i] :
                   i \in {j \in 1..Len(cli.cmds[cmd].options) :
                             cli.cmds[cmd].options[j].kind = kind}})

\* C20: every key of the store is the first tag, stripped of its leading "-", of
\* a Value or Flag option declared globally or by the command dispatched; a
\* string is held only under the key of such a Value option and true only under
\* the key of such a Flag option; a run invokes at most one action.
C20_StoreKeysDeclared ==
    /\ \A k \in DOMAIN values :
          /\ values[k].type \in {"string", "boolean"}
          /\ values[k].type = "string" =>
                \E o \in DeclaredFor("Value") : Stripped(o.tags[1]) = k
          /\ values[k].type = "boolean" =>
                /\ values[k] = BoolTrue
                /\ \E o \in DeclaredFor("Flag") : Stripped(o.tags[1]) = k
    /\ Len(actionCalls) <= 1

\* `--foo=bar run -v`: a key of a global Value option and one of run's Flag
C20_Witness ==
    /\ cli = Cli1
    /\ cmd = 2
    /\ values = (<<"f", "o", "o">> :> Str(<<"b", "a", "r">>)) @@ (<<"v">> :> BoolTrue)

====
